---- MODULE Spec2Model ----
(***************************************************************************)
(* A model of premiere_pek_analyzer.py: the PEKAnalyzer class (two decode  *)
(* hypotheses, the selector, the sample-rate scan, the renderers) and the  *)
(* batch loops of main().                                                  *)
(*                                                                         *)
(* Numbers.  A decoded sample is a dyadic rational (-1)^neg * m * 2^e kept *)
(* as the record [cls, neg, m, e] with m odd (or m = 0, e = 0), because a  *)
(* float32 spans 2^-149 .. 2^127 and the checker's integers are 32 bits    *)
(* wide.  An unsigned 32-bit window is kept as two 16-bit halves for the   *)
(* same reason.                                                            *)
(***************************************************************************)
EXTENDS Integers, Sequences, FiniteSets, TLC

VARIABLES disk, mode, pc, pek_files, idx, analyzer, ret, locals, args, results,
          report, report_writes, info, csv, ascii, interrupts

vars == <<disk, mode, pc, pek_files, idx, analyzer, ret, locals, args, results,
          report, report_writes, info, csv, ascii, interrupts>>

(***************************************************************************)
(* Bounds of the model.                                                    *)
(***************************************************************************)
\* the longest buffer is the concatenation of MaxTokens fragments
MaxTokens == 4
\* the longest batch list
MaxFiles == 2
\* the longest list of .pek paths taken from a scan JSON
MaxScan == 2
\* the widest target width handed to the renderers
MaxWidth == 4
\* the tallest ASCII grid
MaxHeight == 4

(***************************************************************************)
(* Small helpers.                                                          *)
(***************************************************************************)
Min2(a, b) == IF a <= b THEN a ELSE b
Max2(a, b) == IF a >= b THEN a ELSE b

\* 2^n for n in 0..30 (1 for n < 0)
Pow2(n) ==
    IF n <= 0 THEN 1
    ELSE << 2, 4, 8, 16, 32, 64, 128, 256, 512, 1024, 2048, 4096, 8192, 16384, 32768,
            65536, 131072, 262144, 524288, 1048576, 2097152, 4194304, 8388608,
            16777216, 33554432, 67108864, 134217728, 268435456, 536870912,
            1073741824 >>[n]

\* number of bits of a natural number (0 for 0)
BitLen(n) ==
    IF n <= 0 THEN 0
    ELSE IF n >= Pow2(30) THEN 31
    ELSE CHOOSE k \in 1..30 : Pow2(k - 1) <= n /\ n < Pow2(k)

\* Python dict: a function from a finite set of keys
EmptyDict == << >>
Has(d, k) == k \in DOMAIN d
Put(d, k, v) == (k :> v) @@ d

\* Python range(start, stop, step) for step > 0, as the sequence of its values
range(start, stop, step) ==
    LET n == IF stop > start THEN (stop - start + step - 1) \div step ELSE 0
    IN  [k \in 1..n |-> start + (k - 1) * step]

\* Python slice s[i:j] of a sequence, 0-based, clipped to the sequence
Slice(s, i, j) == SubSeq(s, i + 1, Min2(j, Len(s)))

\* Python slice s[::step][:limit]: every step-th element from index 0
Stride(s, step) == [k \in 1..((Len(s) + step - 1) \div step) |-> s[(k - 1) * step + 1]]

(***************************************************************************)
(* Dyadic sample values.                                                   *)
(***************************************************************************)
\* m * 2^e with the trailing zero bits of m moved into the exponent
Canon(m, e) ==
    IF m = 0 THEN [m |-> 0, e |-> 0]
    ELSE LET tz == CHOOSE k \in 0..30 : m % Pow2(k) = 0 /\ (m \div Pow2(k)) % 2 = 1
         IN  [m |-> m \div Pow2(tz), e |-> e + tz]

Num(neg, m, e) == LET c == Canon(m, e) IN [cls |-> "num", neg |-> neg, m |-> c.m, e |-> c.e]
NaN == [cls |-> "nan", neg |-> FALSE, m |-> 0, e |-> 0]

\* |a| < |b| for two finite values
MagLess(a, b) ==
    IF b.m = 0 THEN FALSE
    ELSE IF a.m = 0 THEN TRUE
    ELSE LET ta == BitLen(a.m) + a.e
             tb == BitLen(b.m) + b.e
         IN  IF ta # tb THEN ta < tb
             ELSE IF a.e >= b.e THEN a.m * Pow2(a.e - b.e) < b.m
             ELSE a.m < b.m * Pow2(b.e - a.e)

\* a < b as Python compares two floats (any comparison with nan is False;
\* -0.0 and 0.0 compare equal)
Less(a, b) ==
    IF a.cls = "nan" \/ b.cls = "nan" THEN FALSE
    ELSE IF a.cls = "inf" THEN a.neg /\ ~(b.cls = "inf" /\ b.neg)
    ELSE IF b.cls = "inf" THEN ~b.neg
    ELSE IF a.m = 0 /\ b.m = 0 THEN FALSE
    ELSE IF a.m = 0 THEN ~b.neg
    ELSE IF b.m = 0 THEN a.neg
    ELSE IF a.neg # b.neg THEN a.neg
    ELSE IF a.neg THEN MagLess(b, a) ELSE MagLess(a, b)

LessEq(a, b) ==
    IF a.cls = "nan" \/ b.cls = "nan" THEN FALSE ELSE ~Less(b, a)

One == Num(FALSE, 1, 0)
\* a file size or a sample count: the natural number n, kept in the same form
\* because the size of a long file exceeds 32 bits
Whole(n) == Num(FALSE, n, 0)
MinusOne == Num(TRUE, 1, 0)

\* abs(v)
Abs(v) == [v EXCEPT !.neg = FALSE]

(***************************************************************************)
(* struct.unpack on a window of bytes.  ok = FALSE stands for struct.error *)
(* (the window does not have the exact size of the format).                *)
(***************************************************************************)
\* struct.unpack('<f', w)[0]
unpack_f(w) ==
    IF Len(w) # 4 THEN [ok |-> FALSE, v |-> NaN]
    ELSE LET neg  == w[4] >= 128
             ex   == (w[4] % 128) * 2 + (w[3] \div 128)
             frac == (w[3] % 128) * 65536 + w[2] * 256 + w[1]
         IN  [ok |-> TRUE,
              v  |-> IF ex = 255 THEN (IF frac = 0 THEN [cls |-> "inf", neg |-> neg, m |-> 0, e |-> 0]
                                          ELSE NaN)
                     ELSE IF ex = 0 THEN Num(neg, frac, -149)
                     ELSE Num(neg, 8388608 + frac, ex - 150)]

\* struct.unpack('<h', w)[0]
unpack_h(w) ==
    IF Len(w) # 2 THEN [ok |-> FALSE, v |-> 0]
    ELSE LET u == w[1] + 256 * w[2]
         IN  [ok |-> TRUE, v |-> IF u >= 32768 THEN u - 65536 ELSE u]

\* struct.unpack('<I', w)[0], as the halves value = hi * 65536 + lo
unpack_I(w) ==
    IF Len(w) # 4 THEN [ok |-> FALSE, lo |-> 0, hi |-> 0]
    ELSE [ok |-> TRUE, lo |-> w[1] + 256 * w[2], hi |-> w[3] + 256 * w[4]]

\* the division by 65536 instead of 32768
Normalize16_Half(v) == Num(v < 0, IF v < 0 THEN -v ELSE v, -16)

\* value / 32768.0 for a signed 16-bit value
Normalize16(v) == Num(v < 0, IF v < 0 THEN -v ELSE v, -15)

(***************************************************************************)
(* Exact arithmetic on non-negative dyadic numbers of any size, kept as    *)
(* [lo, limbs]: the sum of limbs[i] * 2^(24 * (lo + i - 1)), every limb in *)
(* 0 .. 2^24 - 1.  It carries the magnitudes of Python's floats (doubles): *)
(* a float operation is the exact operation followed by the rounding to 53 *)
(* significant bits, ties to even, and f"{x:.4f}" rounds the exact value   *)
(* of the double.                                                          *)
(***************************************************************************)
\* m * 2^e for 0 <= m < 2^30
BigOf(m, e) ==
    LET r    == e % 24
        cut  == Pow2(24 - r)
        rest == m \div cut
    IN  [lo |-> e \div 24,
         limbs |-> <<(m % cut) * Pow2(r), rest % 16777216, rest \div 16777216>>]

BigZero == [lo |-> 0, limbs |-> <<>>]

\* the limb of weight 2^(24 * pos)
Limb(a, pos) ==
    IF pos >= a.lo /\ pos < a.lo + Len(a.limbs) THEN a.limbs[pos - a.lo + 1] ELSE 0

RECURSIVE AddFrom(_, _, _, _, _)
AddFrom(a, b, pos, end, carry) ==
    IF pos > end THEN (IF carry > 0 THEN <<carry>> ELSE <<>>)
    ELSE LET t == Limb(a, pos) + Limb(b, pos) + carry
         IN  <<t % 16777216>> \o AddFrom(a, b, pos + 1, end, t \div 16777216)

\* the limbs above the highest non-zero one dropped
BigTrim(a) ==
    LET used == {i \in 1..Len(a.limbs) : a.limbs[i] # 0}
    IN  IF used = {} THEN BigZero
        ELSE [a EXCEPT !.limbs = SubSeq(a.limbs, 1, CHOOSE i \in used : \A j \in used : j <= i)]

\* a + b
BigAdd(a, b) ==
    LET x == BigTrim(a)
        y == BigTrim(b)
    IN  IF x.limbs = <<>> THEN y
        ELSE IF y.limbs = <<>> THEN x
        ELSE [lo    |-> Min2(x.lo, y.lo),
              limbs |-> AddFrom(x, y, Min2(x.lo, y.lo),
                                Max2(x.lo + Len(x.limbs), y.lo + Len(y.limbs)) - 1, 0)]

RECURSIVE MulFrom(_, _, _, _)
MulFrom(limbs, c, i, carry) ==
    IF i > Len(limbs) THEN (IF carry > 0 THEN <<carry>> ELSE <<>>)
    ELSE LET t == limbs[i] * c + carry
         IN  <<t % 16777216>> \o MulFrom(limbs, c, i + 1, t \div 16777216)

\* a * c for 0 <= c <= 64
BigMulSmall(a, c) ==
    LET x == BigTrim(a) IN [lo |-> x.lo, limbs |-> MulFrom(x.limbs, c, 1, 0)]

RECURSIVE BigMulPow10(_, _)
BigMulPow10(a, d) == IF d <= 0 THEN a ELSE BigMulPow10(BigMulSmall(a, 10), d - 1)

\* the bit of weight 2^p
BigBit(a, p) == (Limb(a, p \div 24) \div Pow2(p % 24)) % 2

\* some bit of weight below 2^p is set
BigBelow(a, p) ==
    \E i \in 1..Len(a.limbs) :
        LET pos == a.lo + i - 1
        IN  \/ pos < p \div 24 /\ a.limbs[i] # 0
            \/ pos = p \div 24 /\ a.limbs[i] % Pow2(p % 24) # 0

\* the magnitude of a sample value
BitsOf(v) == BigOf(v.m, v.e)

\* the zero limbs at both ends dropped
BigNormTrimmed(x) ==
    IF x.limbs = <<>> THEN BigZero
    ELSE [lo    |-> x.lo + (CHOOSE i \in 1..Len(x.limbs) :
                               x.limbs[i] # 0 /\ \A j \in 1..(i - 1) : x.limbs[j] = 0) - 1,
          limbs |-> SubSeq(x.limbs,
                           CHOOSE i \in 1..Len(x.limbs) :
                               x.limbs[i] # 0 /\ \A j \in 1..(i - 1) : x.limbs[j] = 0,
                           Len(x.limbs))]

BigNorm(a) == BigNormTrimmed(BigTrim(a))

\* a * c for 0 <= c < 8192
BigMulInt(a, c) ==
    BigAdd(BigMulSmall(BigMulSmall(a, c \div 64), 64), BigMulSmall(a, c % 64))

\* the weight of the highest set bit of a trimmed non-zero number
TopBit(x) == 24 * (x.lo + Len(x.limbs) - 1) + BitLen(x.limbs[Len(x.limbs)]) - 1

\* the bits of weight below 2^q cleared
ClearBelow(x, q) ==
    [lo    |-> q \div 24,
     limbs |-> [i \in 1..(x.lo + Len(x.limbs) - q \div 24) |->
                  IF i = 1
                  THEN Limb(x, q \div 24) - (Limb(x, q \div 24) % Pow2(q % 24))
                  ELSE Limb(x, q \div 24 + i - 1)]]

\* x rounded to a multiple of 2^q, ties to even
RoundAt(x, q) ==
    IF BigBit(x, q - 1) = 1 /\ (BigBelow(x, q - 1) \/ BigBit(x, q) = 1)
    THEN BigNorm(BigAdd(ClearBelow(x, q), BigOf(1, q)))
    ELSE BigNorm(ClearBelow(x, q))

Round53Trimmed(x) ==
    IF x.limbs = <<>> THEN BigZero
    ELSE IF TopBit(x) - 52 <= 24 * x.lo THEN x
    ELSE RoundAt(x, TopBit(x) - 52)

\* the double nearest to a (a within the range of the normal doubles)
Round53(a) == Round53Trimmed(BigNorm(a))

\* the 6-bit digit of weight 2^(6 * p)
Digit6(x, p) == (Limb(x, p \div 4) \div Pow2(6 * (p % 4))) % 64

\* long division in base 2^6 of the 15 digits d, highest first, by
\* 0 < n < 2^24: the quotient digits, highest first, and the remainder
DivSteps(d, n) ==
    LET t1 == d[1]
        t2 == (t1 % n) * 64 + d[2]
        t3 == (t2 % n) * 64 + d[3]
        t4 == (t3 % n) * 64 + d[4]
        t5 == (t4 % n) * 64 + d[5]
        t6 == (t5 % n) * 64 + d[6]
        t7 == (t6 % n) * 64 + d[7]
        t8 == (t7 % n) * 64 + d[8]
        t9 == (t8 % n) * 64 + d[9]
        t10 == (t9 % n) * 64 + d[10]
        t11 == (t10 % n) * 64 + d[11]
        t12 == (t11 % n) * 64 + d[12]
        t13 == (t12 % n) * 64 + d[13]
        t14 == (t13 % n) * 64 + d[14]
        t15 == (t14 % n) * 64 + d[15]
    IN  [digits |-> <<t1 \div n, t2 \div n, t3 \div n, t4 \div n, t5 \div n, t6 \div n, t7 \div n, t8 \div n,
                     t9 \div n, t10 \div n, t11 \div n, t12 \div n, t13 \div n, t14 \div n, t15 \div n>>,
         rem    |-> t15 % n]

\* the quotient digit of weight 2^(6 * pos), the top digit being that of
\* weight 2^(6 * pt); the lowest bit of the lowest digit is set when the
\* division left a remainder (it is far below the 53 bits kept and only
\* breaks ties)
QuotDigit(r, pt, pos) ==
    IF pos > pt \/ pos < pt - 14 THEN 0
    ELSE r.digits[pt - pos + 1]
         + (IF pos = pt - 14 /\ r.rem # 0 /\ r.digits[15] % 2 = 0 THEN 1 ELSE 0)

QuotLimbs(r, pt) ==
    [lo    |-> (pt - 14) \div 4,
     limbs |-> [j \in 1..(pt \div 4 - (pt - 14) \div 4 + 1) |->
                  QuotDigit(r, pt, 4 * ((pt - 14) \div 4 + j - 1))
                  + 64 * QuotDigit(r, pt, 4 * ((pt - 14) \div 4 + j - 1) + 1)
                  + 4096 * QuotDigit(r, pt, 4 * ((pt - 14) \div 4 + j - 1) + 2)
                  + 262144 * QuotDigit(r, pt, 4 * ((pt - 14) \div 4 + j - 1) + 3)]]

\* x / n as a double for a normalised double x > 0: the 15 digits from the
\* top one of x down (the lower ones are zero) are divided by n and the
\* quotient, of more than 60 bits, is rounded
DivDoubleTop(x, n, pt) ==
    Round53(QuotLimbs(DivSteps([i \in 1..15 |-> Digit6(x, pt + 1 - i)], n), pt))

DivDoubleNorm(x, n) == DivDoubleTop(x, n, TopBit(x) \div 6)

\* the float division a / n of a double a >= 0 by 0 < n < 2^24
DivDouble(a, n) == IF BigNorm(a).limbs = <<>> THEN BigZero ELSE DivDoubleNorm(BigNorm(a), n)

\* int(x) for a double x >= 0 below 2^24
IntOf(x) == Limb(x, 0)

\* long division of the integer part of N by n <= 64, from limb pos down to
\* limb 0
RECURSIVE DivStep(_, _, _, _, _)
DivStep(N, n, pos, rem, q) ==
    IF pos < 0 THEN [q |-> q, rem |-> rem]
    ELSE LET t == rem * 16777216 + Limb(N, pos)
         IN  DivStep(N, n, pos - 1, t % n, q * 16777216 + (t \div n))

\* N / n rounded to the nearest integer, ties to even
RoundDiv(N, n) ==
    LET d  == DivStep(N, n, BigTrim(N).lo + Len(BigTrim(N).limbs) - 1, 0, 0)
        r2 == 2 * d.rem + BigBit(N, -1)
        half   == r2 >= n
        sticky == (r2 % n # 0) \/ BigBelow(N, -1)
    IN  d.q + (IF half /\ (sticky \/ d.q % 2 = 1) THEN 1 ELSE 0)

\* the quotient limbs (of weight 2^0 up to 2^(24 * pos)) and the remainder of
\* the integer part of N divided by n <= 64
DivLimbsPut(r, limb) == [limbs |-> Append(r.limbs, limb), rem |-> r.rem]

RECURSIVE DivLimbs(_, _, _, _)
DivLimbs(N, n, pos, rem) ==
    IF pos < 0 THEN [limbs |-> <<>>, rem |-> rem]
    ELSE DivLimbsPut(DivLimbs(N, n, pos - 1, (rem * 16777216 + Limb(N, pos)) % n),
                     (rem * 16777216 + Limb(N, pos)) \div n)

BigQuot(r) == [q |-> BigTrim([lo |-> 0, limbs |-> r.limbs]), rem |-> r.rem]

BigDivSmall(N, n) == BigQuot(DivLimbs(N, n, N.lo + Len(N.limbs) - 1, 0))

\* str(n) for a natural number n
RECURSIVE Digits(_)
DigitsOf(d) == Digits(d.q) \o ToString(d.rem)

Digits(N) == IF BigTrim(N).limbs = <<>> THEN "" ELSE DigitsOf(BigDivSmall(N, 10))

BigToString(N) == IF BigTrim(N).limbs = <<>> THEN "0" ELSE Digits(N)

RECURSIVE Pow10(_)
Pow10(n) == IF n <= 0 THEN 1 ELSE 10 * Pow10(n - 1)

\* the decimal digits of n, zero-padded on the left to width w
RECURSIVE Pad(_, _)
Pad(n, w) == IF w <= 1 /\ n < 10 THEN ToString(n)
             ELSE Pad(n \div 10, w - 1) \o ToString(n % 10)

\* f"{x:.<d>f}" for x = (-1)^neg * N / n
FormatFixed(neg, N, n, d) ==
    LET q == RoundDiv(BigMulPow10(N, d), n)
    IN  (IF neg THEN "-" ELSE "") \o ToString(q \div Pow10(d)) \o "."
        \o Pad(q % Pow10(d), d)

\* f"{v:.<d>f}" for a sample value
FormatValue(v, d) == FormatFixed(v.neg, BitsOf(v), 1, d)

\* str(timedelta(seconds=n)) for n >= 0
timedelta_str(n) ==
    LET days == n \div 86400
        rest == n % 86400
        hms  == ToString(rest \div 3600) \o ":" \o Pad((rest % 3600) \div 60, 2)
                \o ":" \o Pad(rest % 60, 2)
    IN  IF days = 0 THEN hms
        ELSE ToString(days) \o (IF days = 1 THEN " day, " ELSE " days, ") \o hms

\* PEKAnalyzer.format_size
RECURSIVE format_size_from(_, _)
format_size_from(size, units) ==
    IF units = <<>> THEN FormatValue(size, 2) \o " TB"
    ELSE IF Less(size, Num(FALSE, 1024, 0))
         THEN FormatValue(size, 2) \o " " \o Head(units)
         ELSE format_size_from(Num(FALSE, size.m, size.e - 10), Tail(units))

format_size(size_bytes) == format_size_from(size_bytes, <<"B", "KB", "MB", "GB">>)

(***************************************************************************)
(* Interrupt points.  A KeyboardInterrupt is raised between two bytecodes  *)
(* of the main thread; where it lands decides which handler sees it.  An   *)
(* analysis run takes at most one, described by ip = [at, k]:              *)
(*   none          no interrupt                                            *)
(*   raise         outside every bare except: it leaves read_pek_file      *)
(*                 (except Exception does not catch it); k = 0 before the  *)
(*                 parse, 1 after the size fields, 2 after the peak pass   *)
(*   float_enter   in the float try, before float_values is bound          *)
(*   float_window  in the inner try of float window k: except: continue    *)
(*   float_loop    in the float loop outside the inner try, after k        *)
(*                 windows: the outer except: pass ends the pass           *)
(*   float_stats   in the float assignments, after k of them               *)
(*   short_window, short_loop, short_stats   likewise for the int16 pass   *)
(*   rate_window   in the try of window k of the rate scan                 *)
(***************************************************************************)
NoInterrupt == [at |-> "none", k |-> 0]

\* max() and min() of a non-empty list: the first greatest / smallest element
PyMax(s) ==
    s[CHOOSE j \in 1..Len(s) : /\ \A i \in 1..Len(s) : ~Less(s[j], s[i])
                               /\ \A i \in 1..(j - 1) : Less(s[i], s[j])]

PyMin(s) ==
    s[CHOOSE j \in 1..Len(s) : /\ \A i \in 1..Len(s) : ~Less(s[i], s[j])
                               /\ \A i \in 1..(j - 1) : Less(s[j], s[i])]

\* acc + abs(s[i]) + ... + abs(s[j]): the floats are added left to right and
\* every sum is rounded to a double (the range is halved to keep the
\* recursion shallow, the order of the additions is that of the list)
RECURSIVE SumAbs(_, _, _, _)
\* the upper half of a range, entered with the sum of the lower half
SumUpper(s, i, j, left) ==
    IF left.limbs = <<>> THEN SumAbs(s, i, j, BigZero) ELSE SumAbs(s, i, j, left)

SumAbs(s, i, j, acc) ==
    IF i > j THEN acc
    ELSE IF i = j THEN Round53(BigAdd(acc, BitsOf(s[i])))
    ELSE SumUpper(s, (i + j) \div 2 + 1, j, SumAbs(s, i, (i + j) \div 2, acc))

\* sum(abs(v) for v in values) / len(values), a double
MeanAbs(values) == DivDouble(SumAbs(values, 1, Len(values), BigZero), Len(values))

\* the selected sequence added to the peaks already held instead of
\* replacing them
SetStats_Extend(self, values, upto) ==
    LET all == self.peaks \o values
        m1 == Put(self.metadata, "peak_count", Whole(Len(all)))
        m2 == Put(m1, "max_peak", PyMax(all))
        m3 == Put(m2, "min_peak", PyMin(all))
        m4 == Put(m3, "avg_peak", MeanAbs(all))
    IN  [self EXCEPT !.peaks = all,
                     !.metadata = IF upto <= 1 THEN self.metadata
                                  ELSE IF upto = 2 THEN m1
                                  ELSE IF upto = 3 THEN m2
                                  ELSE IF upto = 4 THEN m3
                                  ELSE m4]

\* the first upto of the five assignments that record a selected sequence
\* (lines 79-83 and 99-103); an interrupt among them leaves the rest undone
SetStats(self, values, upto) ==
    LET m1 == Put(self.metadata, "peak_count", Whole(Len(values)))
        m2 == Put(m1, "max_peak", PyMax(values))
        m3 == Put(m2, "min_peak", PyMin(values))
        m4 == Put(m3, "avg_peak", MeanAbs(values))
    IN  [self EXCEPT !.peaks = values,
                     !.metadata = IF upto <= 1 THEN self.metadata
                                  ELSE IF upto = 2 THEN m1
                                  ELSE IF upto = 3 THEN m2
                                  ELSE IF upto = 4 THEN m3
                                  ELSE m4]

\* the range test widened to [-2.0, 2.0]
InUnitRange_Wide(value) ==
    LessEq(Num(TRUE, 2, 0), value) /\ LessEq(value, Num(FALSE, 2, 0))

\* -1.0 <= value <= 1.0
InUnitRange(value) == LessEq(MinusOne, value) /\ LessEq(value, One)

\* the elements of the sequence s at the indices in keep, in order
Pick(s, keep) ==
    [k \in 1..Cardinality(keep) |->
        s[CHOOSE j \in keep : Cardinality({i \in keep : i <= j}) = k]]

\* the float values kept from the first n windows (window skip is lost to an
\* interrupt swallowed by the inner except)
FloatValues(data, offs, n, skip) ==
    LET u == [j \in 1..n |-> unpack_f(Slice(data, offs[j], offs[j] + 4))]
    IN  Pick([j \in 1..n |-> u[j].v],
             {j \in 1..n : j # skip /\ u[j].ok /\ InUnitRange(u[j].v)})

\* the float hypothesis, lines 64-85: the local float_values (bound or not)
\* and the analyzer after it
FloatSelect(self, float_values, aborted, upto) ==
    [bound |-> TRUE, float_values |-> float_values,
     self |-> IF ~aborted /\ float_values # <<>>
              THEN SetStats(self, float_values, upto) ELSE self]

FloatPass(self, data, ip) ==
    IF ip.at = "float_enter"
    THEN [bound |-> FALSE, float_values |-> <<>>, self |-> self]
    ELSE LET offs    == range(0, Len(data) - 3, 4)
             aborted == ip.at = "float_loop"
             n       == IF aborted THEN Min2(ip.k, Len(offs)) ELSE Len(offs)
         IN  FloatSelect(self,
                         FloatValues(data, offs, n,
                                     IF ip.at = "float_window" THEN ip.k ELSE 0),
                         aborted,
                         IF ip.at = "float_stats" THEN ip.k ELSE 5)

\* the int16 pass with a range test that rejects the negative values
ShortValues_Positive(data, offs, n, skip) ==
    LET u == [j \in 1..n |-> unpack_h(Slice(data, offs[j], offs[j] + 2))]
    IN  Pick([j \in 1..n |-> Normalize16(u[j].v)],
             {j \in 1..n : j # skip /\ u[j].ok /\ 0 <= u[j].v /\ u[j].v <= 32767})

\* the normalized int16 values of the first n windows
ShortValues(data, offs, n, skip) ==
    LET u == [j \in 1..n |-> unpack_h(Slice(data, offs[j], offs[j] + 2))]
    IN  Pick([j \in 1..n |-> Normalize16(u[j].v)],
             {j \in 1..n : j # skip /\ u[j].ok /\ -32768 <= u[j].v /\ u[j].v <= 32767})

\* the int16 hypothesis and the selection, lines 87-105.  When float_values
\* is unbound the comparison of line 98 raises NameError, which the bare
\* except of line 104 swallows.
\* the selection reversed: the int16 sequence is taken when it is shorter
ShortSelect_Reversed(self, short_values, float_values, upto) ==
    IF Len(short_values) < Len(float_values)
    THEN SetStats(self, short_values, upto)
    ELSE self

\* line 98: the int16 sequence replaces the float one when strictly longer
ShortSelect(self, short_values, float_values, upto) ==
    IF Len(short_values) > Len(float_values)
    THEN SetStats(self, short_values, upto)
    ELSE self

ShortPass(data, ip, fl) ==
    LET offs == range(0, Len(data) - 1, 2)
    IN  IF ip.at = "short_loop" \/ ~fl.bound THEN fl.self
        ELSE ShortSelect(fl.self,
                         ShortValues(data, offs, Len(offs),
                                     IF ip.at = "short_window" THEN ip.k ELSE 0),
                         fl.float_values,
                         IF ip.at = "short_stats" THEN ip.k ELSE 5)

\* PEKAnalyzer._analyze_peak_data
analyze_peak_data(self, data, ip) == ShortPass(data, ip, FloatPass(self, data, ip))

common_sample_rates == <<44100, 48000, 96000, 88200, 192000>>

\* the window at off unpacks to a value in common_sample_rates (lines 117-118)
RateHit(data, off) ==
    LET u == unpack_I(Slice(data, off, off + 4))
    IN  /\ u.ok
        /\ \E j \in 1..Len(common_sample_rates) :
               /\ u.hi = common_sample_rates[j] \div 65536
               /\ u.lo = common_sample_rates[j] % 65536

\* the last matching window instead of the first
FirstRate_Last(data, offs, skip) ==
    LET hits == {j \in 1..Len(offs) : j # skip /\ RateHit(data, offs[j])}
    IN  IF hits = {} THEN 0 ELSE CHOOSE j \in hits : \A i \in hits : j >= i

\* the index in offs of the window at which the scan breaks, the first one
\* that holds a rate (window skip is lost to a swallowed interrupt); 0 when
\* the scan ends without one
FirstRate(data, offs, skip) ==
    LET hits == {j \in 1..Len(offs) : j # skip /\ RateHit(data, offs[j])}
    IN  IF hits = {} THEN 0 ELSE CHOOSE j \in hits : \A i \in hits : j <= i

\* the scan of lines 114-122 once it is known to break at window j, whose
\* rate line 119 records, or to end without a match (j = 0)
RateScan(self, data, offs, j) ==
    IF j = 0 THEN self
    ELSE [self EXCEPT !.metadata =
             Put(self.metadata, "possible_sample_rate",
                 unpack_I(Slice(data, offs[j], offs[j] + 4)).hi * 65536
                 + unpack_I(Slice(data, offs[j], offs[j] + 4)).lo)]

\* PEKAnalyzer._extract_timing_info
extract_timing_info(self, data, ip) ==
    RateScan(self, data, range(0, Len(data) - 3, 1),
             FirstRate(data, range(0, Len(data) - 3, 1),
                       IF ip.at = "rate_window" THEN ip.k ELSE 0))

(***************************************************************************)
(* The file system.  A path holds a file [status, data, size, st_ctime,     *)
(* st_mtime], the two times in whole seconds since the epoch: ok, or the   *)
(* call of read_pek_file that fails on it:                                 *)
(*   open      open() raises (permission denied)                           *)
(*   size      os.path.getsize() raises (the file is gone)                 *)
(*   read      f.read(4) or f.read(512) raises (I/O fault)                 *)
(*   read_all  the full f.read() of line 53 raises, after the size fields  *)
(* A path that is not on the disk holds the file of status missing:        *)
(* open() raises (no such file).                                           *)
(***************************************************************************)
Dir == "/m/"
FileName(i) == "f" \o ToString(i) \o ".pek"
PathOf(i) == Dir \o FileName(i)

\* a path of the scan list that is not on the disk
GonePath == Dir \o "gone.pek"

\* os.path.basename
basename(path) ==
    IF \E i \in 1..MaxFiles : path = PathOf(i)
    THEN FileName(CHOOSE i \in 1..MaxFiles : path = PathOf(i))
    ELSE IF path = GonePath THEN "gone.pek"
    ELSE path

\* str(e) of the OSError a failing file raises
ErrorMessage(file, path) ==
    IF file.status = "open" THEN "[Errno 13] Permission denied: '" \o path \o "'"
    ELSE IF file.status \in {"size", "missing"}
    THEN "[Errno 2] No such file or directory: '" \o path \o "'"
    ELSE "[Errno 5] Input/output error"

None == [none |-> TRUE]

\* PEKAnalyzer.__init__
PEKAnalyzer(file_path) ==
    [file_path |-> file_path, header |-> EmptyDict, peaks |-> <<>>, metadata |-> EmptyDict]

\* PEKAnalyzer._parse_basic_structure, for a file whose reads succeed
\* lines 48-49: the size fields
SetSize(self, file_size) ==
    [self EXCEPT !.metadata =
        Put(Put(self.metadata, "file_size", file_size),
            "file_size_formatted", format_size(file_size))]

\* line 60, unless an interrupt after the peak pass (raise, k = 3) left first
TimingStep(self, data, ip) ==
    IF ip.at = "raise" /\ ip.k = 3 THEN self ELSE extract_timing_info(self, data, ip)

\* PEKAnalyzer._parse_basic_structure, for a file whose reads succeed
parse_basic_structure(self, data, file_size, ip) ==
    TimingStep(analyze_peak_data(SetSize(self, file_size), data, ip), data, ip)

\* PEKAnalyzer.read_pek_file: the analyzer after the call, the value returned
\* and whether a KeyboardInterrupt left the call instead
\* the failure swallowed without a trace: nothing recorded
Failed_Silent(self, file) == [self |-> self, ret |-> FALSE, raised |-> FALSE]

\* lines 38-40: except Exception records the message and returns False
Failed(self, file) ==
    [self   |-> [self EXCEPT !.metadata =
                    Put(self.metadata, "error", ErrorMessage(file, self.file_path))],
     ret    |-> FALSE,
     raised |-> FALSE]

\* the handler of lines 38-40 left by an interrupt after line 39 (raise_error):
\* the message is recorded and the KeyboardInterrupt leaves the call
Interrupted(r, ip) == [r EXCEPT !.raised = (ip.at = "raise_error")]

\* an interrupt outside the try blocks of the passes leaves the call (raise):
\* k = 0 before line 48, k = 1 inside format_size (line 49, file_size set),
\* k = 2 after line 49, k = 3 after the peak pass, k = 4 after the timing
\* pass, on the way out of the with block
read_pek_file(self, file, ip) ==
    IF ip.at = "raise" /\ ip.k = 0
    THEN [self |-> self, ret |-> FALSE, raised |-> TRUE]
    ELSE IF file.status \in {"missing", "open", "size", "read"}
    THEN Interrupted(Failed(self, file), ip)
    ELSE IF ip.at = "raise" /\ ip.k = 1
    THEN [self   |-> [self EXCEPT !.metadata = Put(self.metadata, "file_size", file.size)],
          ret    |-> FALSE,
          raised |-> TRUE]
    ELSE IF ip.at = "raise" /\ ip.k = 2
    THEN [self |-> SetSize(self, file.size), ret |-> FALSE, raised |-> TRUE]
    ELSE IF file.status = "read_all"
    THEN Interrupted(Failed(SetSize(self, file.size), file), ip)
    ELSE [self   |-> parse_basic_structure(self, file.data, file.size, ip),
          ret    |-> ip.at # "raise",
          raised |-> ip.at = "raise"]

\* the interrupt points an analysis of the file offers
InterruptPoints(file) ==
    LET data == file.data
        nf   == Len(range(0, Len(data) - 3, 4))
        ns   == Len(range(0, Len(data) - 1, 2))
        nr   == Len(range(0, Len(data) - 3, 1))
    IN  IF file.status \in {"missing", "open", "size", "read"}
        THEN {[at |-> "raise", k |-> 0], [at |-> "raise_error", k |-> 0],
              [at |-> "main", k |-> 0]}
        ELSE IF file.status = "read_all"
        THEN {[at |-> "raise", k |-> j] : j \in 0..2}
             \cup {[at |-> "raise_error", k |-> 0], [at |-> "main", k |-> 0]}
        ELSE {[at |-> "raise", k |-> j] : j \in 0..4}
             \cup {[at |-> "float_enter", k |-> 0]}
             \cup {[at |-> "float_window", k |-> j] : j \in 1..nf}
             \cup {[at |-> "float_loop", k |-> j] : j \in 0..nf}
             \cup {[at |-> "float_stats", k |-> j] : j \in 1..4}
             \cup {[at |-> "short_window", k |-> j] : j \in 1..ns}
             \cup {[at |-> "short_loop", k |-> j] : j \in 0..ns}
             \cup {[at |-> "short_stats", k |-> j] : j \in 1..4}
             \cup {[at |-> "rate_window", k |-> j] : j \in 1..nr}
             \cup {[at |-> "info", k |-> 0]}
             \cup {[at |-> "stat", k |-> j] : j \in 0..1}
             \cup {[at |-> "main", k |-> j] : j \in 0..1}

\* analyze_pek_file: the analyzer when read_pek_file returns True, else None
Returned(r) == [analyzer |-> IF r.ret THEN r.self ELSE None, raised |-> r.raised]

analyze_pek_file(file_path, file, ip) ==
    Returned(read_pek_file(PEKAnalyzer(file_path), file, ip))

(***************************************************************************)
(* get_audio_info.  The dict is kept as the sequence of its (key, value)   *)
(* pairs in insertion order, the order info.items() yields.                *)
(***************************************************************************)
InfoHas(d, key) == \E j \in 1..Len(d) : d[j][1] = key
InfoGet(d, key) == d[CHOOSE j \in 1..Len(d) : d[j][1] = key][2]

\* int(peak_count / sample_rate) of line 143: the float quotient, truncated
duration_seconds(peak_count, sample_rate) ==
    IntOf(DivDouble(BitsOf(peak_count), sample_rate))

\* the fields added under 'peak_count' (lines 134-145); a key missing from
\* metadata raises KeyError
PeakFields(metadata) ==
    LET stats == <<
            <<"peak_samples", metadata["peak_count"]>>,
            <<"max_amplitude", FormatValue(metadata["max_peak"], 4)>>,
            <<"min_amplitude", FormatValue(metadata["min_peak"], 4)>>,
            <<"avg_amplitude",
              FormatFixed(FALSE, metadata["avg_peak"], 1, 4)>> >>
        sample_rate == metadata["possible_sample_rate"]
    IN  IF Has(metadata, "possible_sample_rate")
        THEN stats \o <<
            <<"estimated_duration",
              timedelta_str(duration_seconds(metadata["peak_count"], sample_rate))>>,
            <<"sample_rate", ToString(sample_rate) \o " Hz">> >>
        ELSE stats

\* datetime.fromtimestamp(ts).strftime('%Y-%m-%d %H:%M:%S') for whole seconds
\* ts >= 0 since the epoch, local time being UTC: the civil date of the day
\* number, counted in 400-year eras that start on March 1st
DateString(y, m, d) == Pad(y, 4) \o "-" \o Pad(m, 2) \o "-" \o Pad(d, 2)

\* mp is the month counted from March and doy the day of the year from
\* March 1st
DateOfMonth(year, mp, doy) ==
    DateString(IF mp < 10 THEN year ELSE year + 1,
               IF mp < 10 THEN mp + 3 ELSE mp - 9,
               doy - (153 * mp + 2) \div 5 + 1)

\* yoe is the year of the era
DateOfEra(era, yoe, doe) ==
    DateOfMonth(yoe + era * 400,
                (5 * (doe - (365 * yoe + yoe \div 4 - yoe \div 100)) + 2) \div 153,
                doe - (365 * yoe + yoe \div 4 - yoe \div 100))

\* doe is the day of the era
YearOfEra(doe) == (doe - doe \div 1460 + doe \div 36524 - doe \div 146096) \div 365

DateOfDay(z) == DateOfEra(z \div 146097, YearOfEra(z % 146097), z % 146097)

strftime(ts) ==
    DateOfDay(ts \div 86400 + 719468) \o " " \o Pad((ts % 86400) \div 3600, 2) \o ":"
    \o Pad((ts % 3600) \div 60, 2) \o ":" \o Pad(ts % 60, 2)

\* lines 148-153: os.stat raises OSError on a file that is gone, and the bare
\* except swallows an interrupt as well: before line 150 has assigned
\* created (stat, k = 0) or between lines 150 and 151 (stat, k = 1)
StampFields(file, ip) ==
    IF file.status \in {"size", "missing"} \/ (ip.at = "stat" /\ ip.k = 0) THEN <<>>
    ELSE IF ip.at = "stat"
    THEN << <<"created", strftime(file.st_ctime)>> >>
    ELSE << <<"created", strftime(file.st_ctime)>>,
            <<"modified", strftime(file.st_mtime)>> >>

\* PEKAnalyzer.get_audio_info: the dict, or raised = TRUE and in exc the
\* exception that left the call: the KeyError of a key missing from metadata
\* or the KeyboardInterrupt that arrived in lines 126-145 (info)
get_audio_info(self, file, ip) ==
    LET md   == self.metadata
        base == <<
            <<"file_name", basename(self.file_path)>>,
            <<"file_path", self.file_path>>,
            <<"file_size", IF Has(md, "file_size") THEN md["file_size"] ELSE Whole(0)>>,
            <<"file_size_formatted",
              IF Has(md, "file_size_formatted") THEN md["file_size_formatted"] ELSE "0 B">> >>
        keyerror == Has(md, "peak_count")
                    /\ ~({"max_peak", "min_peak", "avg_peak"} \subseteq DOMAIN md)
        peak  == IF Has(md, "peak_count") /\ ~keyerror THEN PeakFields(md) ELSE <<>>
    IN  [raised |-> keyerror \/ ip.at = "info",
         exc    |-> IF ip.at = "info" THEN "KeyboardInterrupt"
                    ELSE IF keyerror THEN "KeyError" ELSE "none",
         info   |-> IF keyerror \/ ip.at = "info" THEN <<>>
                    ELSE base \o peak \o StampFields(file, ip)]

\* no text produced yet (every text the program produces has a line)
Unset == <<>>

(***************************************************************************)
(* The renderers.  A text is kept as the sequence of its lines; a row of   *)
(* the ASCII grid as the sequence of its glyphs, "#" standing for the      *)
(* filled block and "-" for the baseline dash.                             *)
(***************************************************************************)
\* step = max(1, len(self.peaks) // width)
StepOf(n, width) == Max2(1, n \div width)

\* reduced_peaks of export_waveform_data: self.peaks[::step]
ExportReduced(peaks, max_points) == Stride(peaks, StepOf(Len(peaks), max_points))

\* reduced_peaks of create_ascii_waveform: self.peaks[::step][:width]
AsciiReduced(peaks, width) ==
    Slice(Stride(peaks, StepOf(Len(peaks), width)), 0, width)

\* the export that numbers the lines 0, 1, 2, ... instead of i * step
export_waveform_data_Ordinal(self, max_points) ==
    LET reduced_peaks == ExportReduced(self.peaks, max_points)
    IN  IF self.peaks = <<>> THEN [ret |-> FALSE, file |-> Unset]
        ELSE [ret  |-> TRUE,
              file |-> << "# Waveform data from PEK file",
                          "# Source: " \o self.file_path,
                          "# Total samples: " \o ToString(Len(self.peaks)),
                          "# Displayed samples: " \o ToString(Len(reduced_peaks)),
                          "# Format: sample_index,amplitude",
                          "" >>
                       \o [i \in 1..Len(reduced_peaks) |->
                              ToString(i - 1) \o "," \o FormatValue(reduced_peaks[i], 6)]]

\* PEKAnalyzer.export_waveform_data: the value returned and the lines
\* written to output_file (None when the file is not opened)
export_waveform_data(self, max_points) ==
    LET step == StepOf(Len(self.peaks), max_points)
        reduced_peaks == ExportReduced(self.peaks, max_points)
    IN  IF self.peaks = <<>> THEN [ret |-> FALSE, file |-> Unset]
        ELSE [ret  |-> TRUE,
              file |-> << "# Waveform data from PEK file",
                          "# Source: " \o self.file_path,
                          "# Total samples: " \o ToString(Len(self.peaks)),
                          "# Displayed samples: " \o ToString(Len(reduced_peaks)),
                          "# Format: sample_index,amplitude",
                          "" >>
                       \o [i \in 1..Len(reduced_peaks) |->
                              ToString((i - 1) * step) \o ","
                              \o FormatValue(reduced_peaks[i], 6)]]

\* the magnitude of (p / max_val) * half: the float quotient, then the float
\* product
ScaleMag(p, max_val, half) ==
    Round53(BigMulInt(DivDouble(BigOf(p.m, p.e - max_val.e), max_val.m), half))

\* int((p / max_val) * half) for max_val > 0 and half < 8192
ScaleTo(p, max_val, half) ==
    IF p.neg THEN -IntOf(ScaleMag(p, max_val, half)) ELSE IntOf(ScaleMag(p, max_val, half))

NoWaveform == "Nenhum dado de forma de onda disponivel"

\* range(height // 2, -(height // 2), -1)
RowsOf(height) ==
    LET half == height \div 2
    IN  [k \in 1..(IF half > -half THEN 2 * half ELSE 0) |-> half - (k - 1)]

\* normalized of create_ascii_waveform
Normalized(peaks, width, height) ==
    LET reduced_peaks == AsciiReduced(peaks, width)
        lo == Abs(PyMin(reduced_peaks))
        hi == Abs(PyMax(reduced_peaks))
        max_val == IF Less(lo, hi) THEN hi ELSE lo
    IN  IF reduced_peaks = <<>> THEN <<>>
        ELSE IF Less(Num(FALSE, 0, 0), max_val)
        THEN [j \in 1..Len(reduced_peaks) |-> ScaleTo(reduced_peaks[j], max_val, height \div 2)]
        ELSE [j \in 1..Len(reduced_peaks) |-> 0]

\* the renderer without the guard of line 180: a grid is drawn for any peaks
create_ascii_waveform_Unguarded(self, width, height) ==
    LET normalized == Normalized(self.peaks, width, height)
        rows == RowsOf(height)
        Glyph(row, val) ==
            IF (val >= row /\ row > 0) \/ (val <= row /\ row < 0) THEN "#"
            ELSE IF row = 0 THEN "-"
            ELSE " "
    IN  [r \in 1..Len(rows) |-> [j \in 1..Len(normalized) |-> Glyph(rows[r], normalized[j])]]

\* PEKAnalyzer.create_ascii_waveform: the lines of the string returned
create_ascii_waveform(self, width, height) ==
    LET normalized == Normalized(self.peaks, width, height)
        rows == RowsOf(height)
        Glyph(row, val) ==
            IF (val >= row /\ row > 0) \/ (val <= row /\ row < 0) THEN "#"
            ELSE IF row = 0 THEN "-"
            ELSE " "
    IN  IF self.peaks = <<>> THEN << <<NoWaveform>> >>
        ELSE [r \in 1..Len(rows) |-> [j \in 1..Len(normalized) |-> Glyph(rows[r], normalized[j])]]

(***************************************************************************)
(* The aggregate report of options 2 and 3.                                *)
(***************************************************************************)
RuleWidth == 100

RECURSIVE Repeat(_, _)
Repeat(s, n) ==
    IF n <= 0 THEN ""
    ELSE LET h == Repeat(s, n \div 2) IN h \o h \o (IF n % 2 = 1 THEN s ELSE "")

\* key.replace('_', ' ').title()
Label(key) ==
    CASE key = "file_name" -> "File Name"
      [] key = "file_path" -> "File Path"
      [] key = "file_size" -> "File Size"
      [] key = "file_size_formatted" -> "File Size Formatted"
      [] key = "peak_samples" -> "Peak Samples"
      [] key = "max_amplitude" -> "Max Amplitude"
      [] key = "min_amplitude" -> "Min Amplitude"
      [] key = "avg_amplitude" -> "Avg Amplitude"
      [] key = "estimated_duration" -> "Estimated Duration"
      [] key = "sample_rate" -> "Sample Rate"
      [] key = "created" -> "Created"
      [] key = "modified" -> "Modified"
      [] OTHER -> key

\* f"{label}: {value}" for one item of an info dict
ItemLine(item) ==
    Label(item[1]) \o ": " \o (IF item[1] \in {"file_size", "peak_samples"}
                               THEN BigToString(BitsOf(item[2])) ELSE item[2])

\* the lines written for one info dict (lines 343-346)
ReportBlock(d) ==
    <<Repeat("-", RuleWidth)>> \o [j \in 1..Len(d) |-> ItemLine(d[j])] \o <<"">>

ReportHeader ==
    << Repeat("=", RuleWidth), "RELATORIO DE ANALISE DE ARQUIVOS PEK",
       "Gerado em: <now>", Repeat("=", RuleWidth), "" >>

RECURSIVE ReportBlocks(_)
ReportBlocks(rs) == IF rs = <<>> THEN <<>> ELSE ReportBlock(Head(rs)) \o ReportBlocks(Tail(rs))

\* the lines of pek_analysis_report.txt (lines 336-346)
ReportLines(rs) == ReportHeader \o ReportBlocks(rs)

(***************************************************************************)
(* Inputs.  A buffer is the concatenation of at most MaxTokens fragments:  *)
(* single bytes (so that every alignment occurs), the halves of float 1.0, *)
(* four zero bytes and the little-endian bytes of the rates 44100, 48000.  *)
(***************************************************************************)
Tokens == { <<0>>, <<255>>, <<0, 0>>, <<128, 63>>, <<0, 0, 0, 0>>,
            <<68, 172, 0, 0>>, <<128, 187, 0, 0>> }

RECURSIVE Concat(_)
Concat(ts) == IF ts = <<>> THEN <<>> ELSE Head(ts) \o Concat(Tail(ts))

Buffers == UNION { {Concat(ts) : ts \in [1..n -> Tokens]} : n \in 0..MaxTokens }

\* st_ctime and st_mtime of the files: 2026-10-30 03:24:40 and
\* 2024-01-01 00:00:00 (a file copied with its modification time kept)
CTime == 1793330680
MTime == 1704067200

OkFile(data) ==
    [status |-> "ok", data |-> data, size |-> Whole(Len(data)),
     st_ctime |-> CTime, st_mtime |-> MTime]
BadFile(status) ==
    [status |-> status, data |-> <<0, 0>>, size |-> Whole(2),
     st_ctime |-> CTime, st_mtime |-> MTime]

\* what a path that is not on the disk holds
NoFile == [BadFile("missing") EXCEPT !.data = <<>>, !.size = Whole(0)]

\* 00 00 80 3F 00 00 00 00: float 1.0 and 0.0, or four int16 values
Example8 == <<0, 0, 128, 63, 0, 0, 0, 0>>
\* 44100 at offset 0 and 48000 at offset 4
TwoRates == <<68, 172, 0, 0, 128, 187, 0, 0>>

\* the files a run of main meets
BatchPool == {OkFile(<<>>), OkFile(TwoRates)}
             \cup {BadFile(st) : st \in {"open", "size", "read", "read_all"}}

\* the files the methods of one analyzer are exercised on
UnitPool == {OkFile(b) : b \in Buffers}
            \cup {BadFile(st) : st \in {"open", "size", "read", "read_all"}}

(***************************************************************************)
(* Long files.  A file of a * 2^k int16 samples (2 * a * 2^k bytes) that   *)
(* starts with an 8-byte head and is silent (zero bytes) after it.  Its    *)
(* bytes are not materialised: data holds the head and size the length.    *)
(* The head ends with four zero bytes, so the windows of the file are      *)
(* those of the head and zero windows: the int16 sequence wins the         *)
(* selection, the extremes are those of the head, the sum of magnitudes is *)
(* that of the head and the first rate is that of the head.                *)
(***************************************************************************)
\* the little-endian bytes of a rate, then four zero bytes
LongHeads ==
    {<<common_sample_rates[j] % 256, (common_sample_rates[j] \div 256) % 256,
       (common_sample_rates[j] \div 65536) % 256, 0, 0, 0, 0, 0>> :
         j \in 1..Len(common_sample_rates)}
    \cup {Example8}

\* the sample counts a * 2^k of the long files
LongCounts == [a : {1, 3}, k : {20, 26}] \cup {[a |-> 1, k |-> 32]}

LongFile(head, c) ==
    [status |-> "ok", data |-> head, size |-> Num(FALSE, c.a, c.k + 1),
     st_ctime |-> CTime, st_mtime |-> MTime]

\* sum of |v| over the raw int16 windows of a head
RECURSIVE RawAbsSum(_, _)
RawAbsSum(data, off) ==
    IF off + 2 > Len(data) THEN 0
    ELSE (IF unpack_h(Slice(data, off, off + 2)).v < 0
          THEN -unpack_h(Slice(data, off, off + 2)).v
          ELSE unpack_h(Slice(data, off, off + 2)).v) + RawAbsSum(data, off + 2)

\* the analyzer of the head with the count and the mean of the whole file
Lengthen(self, head, c) ==
    [self EXCEPT !.metadata =
        Put(Put(self.metadata, "peak_count", Num(FALSE, c.a, c.k)),
            "avg_peak", DivDouble(BigOf(RawAbsSum(head, 0), -15 - c.k), c.a))]

\* the analyzer after read_pek_file on a long file; peaks holds the samples
\* of the head only
LongAnalyzer(file_path, head, c) ==
    Lengthen(parse_basic_structure(PEKAnalyzer(file_path), head,
                                   LongFile(head, c).size, NoInterrupt),
             head, c)

(***************************************************************************)
(* main().  mode is the option taken: "1", "2", "3", or "invalid" for any  *)
(* other answer to the menu.  pc: menu -> export -> done for option 1,     *)
(* menu -> loop -> report -> done for options 2 and 3, or cancelled (the   *)
(* KeyboardInterrupt handler of line 407), error (the Exception handler of *)
(* line 409, which an EOFError at a prompt also reaches) or escaped (a     *)
(* KeyboardInterrupt outside the try of line 268 or inside the Exception   *)
(* handler leaves main uncaught).  A run takes at most one interrupt;      *)
(* interrupts records the path under analysis and the point where it       *)
(* landed.  A file under an interrupted write keeps the lines of the       *)
(* f.write calls that returned.                                            *)
(***************************************************************************)
InitCommon ==
    /\ pek_files = <<>>
    /\ idx = 0
    /\ ret = "None"
    /\ locals = None
    /\ args = None
    /\ results = <<>>
    /\ report = Unset
    /\ report_writes = 0
    /\ info = Unset
    /\ csv = Unset
    /\ ascii = Unset
    /\ interrupts = <<>>

Init ==
    /\ \E n \in 0..MaxFiles : disk \in [{PathOf(i) : i \in 1..n} -> BatchPool]
    /\ mode = "none"
    /\ pc = "menu"
    /\ analyzer = None
    /\ InitCommon

\* the file a path holds
FileAt(path) == IF path \in DOMAIN disk THEN disk[path] ELSE NoFile

\* find_and_analyze_pek_files: the paths of the .pek files under search_path,
\* in the order os.walk lists them, which is any order
find_and_analyze_pek_files(search_path) ==
    IF search_path # Dir THEN {<<>>}
    ELSE {s \in [1..Cardinality(DOMAIN disk) -> DOMAIN disk] :
             \A i, j \in 1..Cardinality(DOMAIN disk) : i # j => s[i] # s[j]}

\* the lists line 368 can build from the scan JSON: its entries are paths of
\* an earlier scan, in any order, on the disk or not, some of them repeated;
\* the empty list also stands for a scan directory or a JSON that is missing
ScanLists ==
    UNION {[1..n -> DOMAIN disk \cup {GonePath}] : n \in 0..MaxScan}

\* main ends before an option is chosen.  An interrupt during the banner of
\* lines 258-266, outside the try, leaves main uncaught ("banner"); at the
\* prompt of line 269 it ends main in the handler of line 407 ("input").  An
\* end of input at that prompt raises EOFError, which ends main in the
\* handler of line 409 ("eof"), or uncaught when an interrupt lands in the
\* prints of that handler ("handler")
CancelMenu ==
    \E at \in {"banner", "input", "eof", "handler"} :
        /\ pc = "menu"
        /\ pc' = CASE at = "banner"  -> "escaped"
                  [] at = "input"   -> "cancelled"
                  [] at = "eof"     -> "error"
                  [] at = "handler" -> "escaped"
        /\ interrupts' = IF at = "eof" THEN interrupts
                         ELSE <<[path |-> "menu", at |-> at]>>
        /\ UNCHANGED <<disk, mode, pek_files, idx, analyzer, ret, locals, args, results,
                       report, report_writes, info, csv, ascii>>

\* lines 404-405: an answer other than 1, 2 or 3 prints "Opcao invalida." and
\* main returns; an interrupt during that print ends main in the handler of
\* line 407
ChooseInvalid ==
    \E interrupted \in BOOLEAN :
        /\ pc = "menu"
        /\ mode' = "invalid"
        /\ pc' = IF interrupted THEN "cancelled" ELSE "done"
        /\ interrupts' = IF interrupted THEN <<[path |-> "menu", at |-> "print"]>>
                         ELSE interrupts
        /\ UNCHANGED <<disk, pek_files, idx, analyzer, ret, locals, args, results,
                       report, report_writes, info, csv, ascii>>

\* lines 280-295 of option 1: a is the outcome of analyze_pek_file on path.
\* The assignment to analyzer happens when analyze_pek_file returns; with no
\* analyzer line 303 prints the error and main returns.  info is the dict of
\* line 283 and ascii the text printed at line 295, for an analyzer with
\* samples, before the prompt of line 297.  An interrupt in main ends the run
\* after analyze_pek_file returned (main, k = 0) or after get_audio_info
\* returned, before the waveform is drawn (main, k = 1)
Show1(path, a, ip) ==
    LET gi == get_audio_info(a.analyzer, FileAt(path), ip)
    IN  /\ analyzer' = IF a.raised THEN analyzer ELSE a.analyzer
        /\ ret' = IF a.raised THEN "None" ELSE IF a.analyzer = None THEN "False" ELSE "True"
        /\ IF a.raised \/ (ip.at = "main" /\ ip.k = 0)
           THEN pc' = "cancelled" /\ UNCHANGED <<info, ascii>>
           ELSE IF a.analyzer = None
           THEN pc' = "done" /\ UNCHANGED <<info, ascii>>
           ELSE IF gi.raised
           THEN /\ pc' = IF gi.exc = "KeyboardInterrupt" THEN "cancelled" ELSE "error"
                /\ UNCHANGED <<info, ascii>>
           ELSE /\ info' = gi.info
                /\ IF ip.at = "main"
                   THEN pc' = "cancelled" /\ ascii' = ascii
                   ELSE IF a.analyzer.peaks = <<>>
                   THEN pc' = "done" /\ ascii' = ascii
                   ELSE /\ pc' = "export"
                        /\ ascii' = create_ascii_waveform(a.analyzer, 80, 20)

\* option 1 up to the prompt of line 297 (lines 271-295).  At the prompt of
\* line 272, or in the lines before the analysis, an interrupt ends main in
\* the handler of line 407
\* ("interrupted") and an end of input in that of line 409 ("eof"), or
\* uncaught when an interrupt lands in the prints of that handler
\* ("escaped").  A path that does not exist ends main at line 275
Choose1 ==
    /\ pc = "menu"
    /\ \E file_path \in DOMAIN disk \cup {GonePath},
          outcome \in {"ok", "interrupted", "eof", "escaped"},
          ip \in {NoInterrupt} \cup (UNION {InterruptPoints(f) : f \in BatchPool}) :
           /\ mode' = "1"
           /\ \/ ip = NoInterrupt
              \/ /\ outcome = "ok"
                 /\ file_path \in DOMAIN disk
                 /\ ip \in InterruptPoints(FileAt(file_path))
           /\ interrupts' = IF outcome = "interrupted"
                            THEN <<[path |-> "menu", at |-> "input"]>>
                            ELSE IF outcome = "escaped"
                            THEN <<[path |-> "menu", at |-> "handler"]>>
                            ELSE IF ip # NoInterrupt
                            THEN <<[path |-> file_path, at |-> ip.at]>>
                            ELSE interrupts
           /\ IF outcome = "ok" /\ file_path \in DOMAIN disk
              THEN Show1(file_path, analyze_pek_file(file_path, FileAt(file_path), ip), ip)
              ELSE /\ pc' = CASE outcome = "ok"          -> "done"
                            [] outcome = "interrupted" -> "cancelled"
                            [] outcome = "eof"         -> "error"
                            [] outcome = "escaped"     -> "escaped"
                   /\ UNCHANGED <<analyzer, ret, info, ascii>>
           /\ UNCHANGED <<disk, pek_files, idx, locals, args, results, report,
                          report_writes, csv>>

\* ord(c) for the printable ASCII characters: 32 to 95, then 97 to 126 (a
\* string of the module cannot hold the grave accent, 96)
ord ==
    LET low  == " !\"#$%&'()*+,-./0123456789:;<=>?@ABCDEFGHIJKLMNOPQRSTUVWXYZ[\\]^_"
        high == "abcdefghijklmnopqrstuvwxyz{|}~"
    IN  [c \in {SubSeq(low, i, i) : i \in 1..64} \cup {SubSeq(high, i, i) : i \in 1..30} |->
            IF \E i \in 1..64 : SubSeq(low, i, i) = c
            THEN 31 + CHOOSE i \in 1..64 : SubSeq(low, i, i) = c
            ELSE 96 + CHOOSE i \in 1..30 : SubSeq(high, i, i) = c]

\* the bytes of a text file that holds the lines, each ended by "\n"
encode(lines) ==
    Concat([j \in 1..Len(lines) |->
               [i \in 1..(Len(lines[j]) + 1) |->
                   IF i > Len(lines[j]) THEN 10 ELSE ord[SubSeq(lines[j], i, i)]]])

\* the disk after open(output_file, 'w') and the f.write calls that put the
\* lines in it (line 166): an output file that is one of the files of the
\* disk, the analysed one included, is rewritten and takes the time of the
\* write, here the second in which the files were made; any other name is a
\* new file outside the disk
Written(output_file, lines) ==
    IF output_file \in DOMAIN disk
    THEN [disk EXCEPT ![output_file] =
             [OkFile(encode(lines)) EXCEPT !.st_mtime = CTime]]
    ELSE disk

\* the export of option 1 (lines 297-301): the answer to "Deseja exportar
\* os dados da forma de onda? (s/n)", then the name of the output file and
\* export_waveform_data with max_points at its default.  The name is the
\* default one or the path of a readable file of the disk (how open() ends
\* on a file that fails to read is not fixed by its status).  args records
\* the call, which opens the file.  At either prompt an interrupt ends main in
\* the handler of line 407 and an end of input in that of line 409, or
\* uncaught when an interrupt lands in the prints of that handler.  An
\* interrupt during the write leaves the first k lines in the file (line 5
\* and the empty line after it come from one f.write), one at the print
\* after it the whole file
Export1 ==
    /\ mode = "1"
    /\ pc = "export"
    /\ \/ /\ pc' = "done"
          /\ UNCHANGED <<disk, ret, args, csv, interrupts>>
       \/ \E output_file \in {"waveform_data.csv"}
                               \cup {p \in DOMAIN disk : disk[p].status = "ok"} :
             /\ csv' = export_waveform_data(analyzer, 1000).file
             /\ disk' = Written(output_file, export_waveform_data(analyzer, 1000).file)
             /\ ret' = IF export_waveform_data(analyzer, 1000).ret THEN "True" ELSE "False"
             /\ args' = [width |-> 1000, height |-> 0]
             /\ pc' = "done"
             /\ UNCHANGED interrupts
       \/ \E output_file \in {"waveform_data.csv"}
                               \cup {p \in DOMAIN disk : disk[p].status = "ok"},
             k \in 0..(6 + Len(analyzer.peaks)) :
             /\ k # 5
             /\ k <= Len(export_waveform_data(analyzer, 1000).file)
             /\ interrupts = <<>>
             /\ interrupts' = <<[path |-> "export", at |-> "raise"]>>
             /\ csv' = SubSeq(export_waveform_data(analyzer, 1000).file, 1, k)
             /\ disk' = Written(output_file,
                                SubSeq(export_waveform_data(analyzer, 1000).file, 1, k))
             /\ args' = [width |-> 1000, height |-> 0]
             /\ pc' = "cancelled"
             /\ UNCHANGED ret
       \/ \E at \in {"input", "eof", "handler"} :
             /\ at # "eof" => interrupts = <<>>
             /\ interrupts' = IF at = "eof" THEN interrupts
                              ELSE <<[path |-> "menu", at |-> at]>>
             /\ pc' = CASE at = "input"   -> "cancelled"
                       [] at = "eof"     -> "error"
                       [] at = "handler" -> "escaped"
             /\ UNCHANGED <<disk, ret, args, csv>>
    /\ UNCHANGED <<mode, pek_files, idx, analyzer, locals, results, report,
                   report_writes, info, ascii>>

\* option 2 up to the start of the batch loop (lines 305-323).  A
\* KeyboardInterrupt ends main at the prompt or during the search, before
\* pek_files is assigned ("search"), or after the assignment and before the
\* first analysis ("found").  An end of input at the prompt of line 306
\* raises EOFError, which ends main in the handler of line 409 ("eof"), or
\* uncaught when an interrupt lands in the prints of that handler
\* ("escaped")
Choose2 ==
    /\ pc = "menu"
    /\ \E search_path \in {Dir, "/none/"},
          interrupted \in {"no", "search", "found", "eof", "escaped"} :
           \E found \in find_and_analyze_pek_files(search_path) :
               /\ mode' = "2"
               /\ pek_files' = IF interrupted \in {"no", "found"} THEN found ELSE <<>>
               /\ pc' = CASE interrupted = "no" ->
                                (IF found = <<>> THEN "done" ELSE "loop")
                         [] interrupted \in {"search", "found"} -> "cancelled"
                         [] interrupted = "eof" -> "error"
                         [] interrupted = "escaped" -> "escaped"
               /\ interrupts' = IF interrupted \in {"search", "found"}
                                THEN <<[path |-> "menu", at |-> "input"]>>
                                ELSE IF interrupted = "escaped"
                                THEN <<[path |-> "menu", at |-> "handler"]>>
                                ELSE interrupts
               /\ UNCHANGED <<disk, idx, analyzer, ret, locals, args, results, report,
                              report_writes, info, csv, ascii>>

\* option 3 up to the start of the batch loop (lines 350-375): the list of
\* the scan, then the answer to "Deseja analisar todos? (s/n)".  A scan file
\* that is not JSON or an entry without 'path' or 'extension' raises in
\* lines 364-368, before pek_files is assigned, and ends main in the handler
\* of line 409 ("error"), which an interrupt during its prints leaves
\* uncaught ("escaped").  An end of input at the prompt of line 373, which a
\* non-empty list reaches, raises EOFError after the assignment of line 368:
\* late tells the two apart
Choose3 ==
    /\ pc = "menu"
    /\ \E scan \in ScanLists, analyze \in {"s", "n"}, late \in BOOLEAN,
          outcome \in {"ok", "interrupted", "error", "escaped"} :
           /\ late => outcome \in {"error", "escaped"} /\ scan # <<>>
           /\ mode' = "3"
           /\ pek_files' = IF outcome \in {"error", "escaped"} /\ ~late THEN <<>> ELSE scan
           /\ pc' = IF outcome = "interrupted" THEN "cancelled"
                    ELSE IF outcome # "ok" THEN outcome
                    ELSE IF scan # <<>> /\ analyze = "s" THEN "loop" ELSE "done"
           /\ interrupts' = IF outcome = "interrupted"
                            THEN <<[path |-> "menu", at |-> "input"]>>
                            ELSE IF outcome = "escaped"
                            THEN <<[path |-> "menu", at |-> "handler"]>>
                            ELSE interrupts
           /\ UNCHANGED <<disk, idx, analyzer, ret, locals, args, results, report,
                          report_writes, info, csv, ascii>>

\* lines 329-331 and 377-380: a is the outcome of analyze_pek_file and gi
\* that of get_audio_info.  The assignment to analyzer happens when
\* analyze_pek_file returns; the record joins the list when the analysis gave
\* an analyzer.  An interrupt in main ends the run after analyze_pek_file
\* returned (main, k = 0) or after results.append returned (main, k = 1)
BatchCommit(a, gi, ip) ==
    /\ analyzer' = IF a.raised THEN analyzer ELSE a.analyzer
    /\ ret' = IF a.raised THEN "None" ELSE IF a.analyzer = None THEN "False" ELSE "True"
    /\ IF a.raised \/ (ip.at = "main" /\ ip.k = 0)
       THEN pc' = "cancelled" /\ results' = results
       ELSE IF a.analyzer = None
       THEN /\ pc' = IF idx + 1 = Len(pek_files) THEN "report" ELSE "loop"
            /\ results' = results
       ELSE IF gi.raised
       THEN /\ pc' = IF gi.exc = "KeyboardInterrupt" THEN "cancelled" ELSE "error"
            /\ results' = results
       ELSE /\ pc' = IF ip.at = "main" THEN "cancelled"
                     ELSE IF idx + 1 = Len(pek_files) THEN "report" ELSE "loop"
            /\ results' = Append(results, gi.info)

BatchRecord(path, ip, a) ==
    BatchCommit(a, get_audio_info(a.analyzer, FileAt(path), ip), ip)

\* one iteration of the batch loop (lines 327-331 and 376-380)
BatchStep(choice, ip) ==
    /\ pc = "loop"
    /\ mode = choice
    /\ idx < Len(pek_files)
    /\ \/ ip = NoInterrupt
       \/ interrupts = <<>> /\ ip \in InterruptPoints(FileAt(pek_files[idx + 1]))
    /\ interrupts' = IF ip = NoInterrupt THEN interrupts
                     ELSE Append(interrupts, [path |-> pek_files[idx + 1], at |-> ip.at])
    /\ idx' = idx + 1
    /\ BatchRecord(pek_files[idx + 1], ip,
                   analyze_pek_file(pek_files[idx + 1], FileAt(pek_files[idx + 1]), ip))
    /\ UNCHANGED <<disk, mode, pek_files, locals, args, report, report_writes,
                   info, csv, ascii>>

\* the loop of option 2; ip ranges over the interrupt points of every file a
\* batch can meet, of which BatchStep keeps those of the file at hand
Analyze2 ==
    /\ pc = "loop"
    /\ mode = "2"
    /\ \E ip \in {NoInterrupt} \cup (UNION {InterruptPoints(f) : f \in BatchPool \cup {NoFile}}) :
           BatchStep("2", ip)

\* the loop of option 3
Analyze3 ==
    /\ pc = "loop"
    /\ mode = "3"
    /\ \E ip \in {NoInterrupt} \cup (UNION {InterruptPoints(f) : f \in BatchPool \cup {NoFile}}) :
           BatchStep("3", ip)

\* the report of lines 334-348 and 382-396; an interrupt during the write
\* leaves the first k lines in the file, those of the f.write calls that
\* returned (the second rule of the header and the empty line after it come
\* from one f.write, so k is not 4), one at the print after it the whole
\* report
WriteReport(choice) ==
    /\ pc = "report"
    /\ mode = choice
    /\ IF results = <<>>
       THEN /\ pc' = "done"
            /\ UNCHANGED <<report, report_writes, interrupts>>
       ELSE \/ /\ report' = ReportLines(results)
               /\ report_writes' = report_writes + 1
               /\ pc' = "done"
               /\ UNCHANGED interrupts
            \/ \E k \in 0..Len(ReportLines(results)) :
               /\ k # 4
               /\ interrupts = <<>>
               /\ interrupts' = <<[path |-> "report", at |-> "raise"]>>
               /\ report' = SubSeq(ReportLines(results), 1, k)
               /\ report_writes' = report_writes + 1
               /\ pc' = "cancelled"
    /\ UNCHANGED <<disk, mode, pek_files, idx, analyzer, ret, locals, args, results,
                   info, csv, ascii>>

Report2 == WriteReport("2")
Report3 == WriteReport("3")

Next ==
    \/ CancelMenu
    \/ ChooseInvalid
    \/ Choose1
    \/ Export1
    \/ Choose2
    \/ Choose3
    \/ Analyze2
    \/ Analyze3
    \/ Report2
    \/ Report3

Spec == Init /\ [][Next]_vars

(***************************************************************************)
(* The methods of one analyzer, applied to one file: read_pek_file, then   *)
(* one of get_audio_info, export_waveform_data and create_ascii_waveform.  *)
(* pc: new -> read -> done, then reread -> done2 when the pipeline is run  *)
(* a second time.  A long file starts at pc = long, read, and only         *)
(* get_audio_info, which reads the metadata and not the samples, is        *)
(* applied to it.  locals keeps the two local sequences of the peak pass   *)
(* and args the arguments of the renderer call.                            *)
(***************************************************************************)
UnitPath == PathOf(1)

InitUnit ==
    /\ mode = "unit"
    /\ InitCommon
    /\ \/ /\ disk \in [{UnitPath} -> UnitPool]
          /\ pc = "new"
          /\ analyzer = PEKAnalyzer(UnitPath)
       \/ \E head \in LongHeads, c \in LongCounts :
             /\ disk = [p \in {UnitPath} |-> LongFile(head, c)]
             /\ pc = "long"
             /\ analyzer = LongAnalyzer(UnitPath, head, c)

\* the local sequences of _analyze_peak_data on the data of a readable file
Locals(self, file) ==
    IF file.status # "ok" THEN None
    ELSE [float_values |-> FloatPass(self, file.data, NoInterrupt).float_values,
          short_values |-> ShortValues(file.data, range(0, Len(file.data) - 1, 2),
                                       Len(range(0, Len(file.data) - 1, 2)), 0)]

ReadCommit(r) ==
    /\ analyzer' = r.self
    /\ ret' = IF r.ret THEN "True" ELSE "False"

ReadFile ==
    /\ mode = "unit"
    /\ pc = "new"
    /\ ReadCommit(read_pek_file(analyzer, disk[UnitPath], NoInterrupt))
    /\ locals' = Locals(analyzer, disk[UnitPath])
    /\ pc' = "read"
    /\ UNCHANGED <<disk, mode, pek_files, idx, args, results, report, report_writes,
                   info, csv, ascii, interrupts>>

InfoCommit(gi) ==
    /\ info' = IF gi.raised THEN Unset ELSE gi.info
    /\ pc' = IF gi.raised THEN "error" ELSE "done"

GetInfo ==
    /\ mode = "unit"
    /\ pc \in {"read", "long"}
    /\ InfoCommit(get_audio_info(analyzer, disk[UnitPath], NoInterrupt))
    /\ UNCHANGED <<disk, mode, pek_files, idx, analyzer, ret, locals, args, results,
                   report, report_writes, csv, ascii, interrupts>>

\* the file is opened, and written, when the call goes past line 160
ExportCommit(e, output_file) ==
    /\ csv' = e.file
    /\ disk' = IF e.ret THEN Written(output_file, e.file) ELSE disk
    /\ ret' = IF e.ret THEN "True" ELSE "False"

\* export_waveform_data(output_file, max_points), the output file a new file
\* or the analysed file itself
Export ==
    /\ mode = "unit"
    /\ pc = "read"
    /\ \E max_points \in 1..MaxWidth, output_file \in {"waveform_data.csv", UnitPath} :
           /\ ExportCommit(export_waveform_data(analyzer, max_points), output_file)
           /\ args' = [width |-> max_points, height |-> 0]
           /\ pc' = "done"
           /\ UNCHANGED <<mode, pek_files, idx, analyzer, locals, results, report,
                          report_writes, info, ascii, interrupts>>

Ascii ==
    \E width \in 1..MaxWidth, height \in 1..MaxHeight :
        /\ mode = "unit"
        /\ pc = "read"
        /\ ascii' = create_ascii_waveform(analyzer, width, height)
        /\ args' = [width |-> width, height |-> height]
        /\ pc' = "done"
        /\ UNCHANGED <<disk, mode, pek_files, idx, analyzer, ret, locals, results,
                       report, report_writes, info, csv, interrupts>>

\* the pipeline run a second time on the unmodified file: read_pek_file on
\* the same analyzer or on a fresh PEKAnalyzer of the same path.  results
\* keeps the dict of the first run and args which instance was used.
RereadCommit(first, r) ==
    /\ ReadCommit(r)
    /\ results' = <<first>>

ReadAgain ==
    \E fresh \in BOOLEAN :
        /\ mode = "unit"
        /\ pc = "done"
        /\ info # Unset
        /\ disk[UnitPath].size = Whole(Len(disk[UnitPath].data))
        /\ RereadCommit(info,
                        read_pek_file(IF fresh THEN PEKAnalyzer(UnitPath) ELSE analyzer,
                                      disk[UnitPath], NoInterrupt))
        /\ args' = [fresh |-> fresh]
        /\ pc' = "reread"
        /\ UNCHANGED <<disk, mode, pek_files, idx, locals, report, report_writes,
                       info, csv, ascii, interrupts>>

\* get_audio_info of the second run; its dict joins the first in results
InfoAgainCommit(gi) ==
    /\ info' = IF gi.raised THEN Unset ELSE gi.info
    /\ results' = IF gi.raised THEN results ELSE Append(results, gi.info)
    /\ pc' = IF gi.raised THEN "error" ELSE "done2"

InfoAgain ==
    /\ mode = "unit"
    /\ pc = "reread"
    /\ InfoAgainCommit(get_audio_info(analyzer, disk[UnitPath], NoInterrupt))
    /\ UNCHANGED <<disk, mode, pek_files, idx, analyzer, ret, locals, args, report,
                   report_writes, csv, ascii, interrupts>>

NextUnit == ReadFile \/ GetInfo \/ Export \/ Ascii \/ ReadAgain \/ InfoAgain

SpecUnit == InitUnit /\ [][NextUnit]_vars

\* read_pek_file on the single analyzers together with the runs of main, on
\* disks whose files are readable with samples or fail at os.path.getsize,
\* at f.read(4) or at the full f.read(); the path on which open() fails is
\* there the one of the scan list that is no longer on the disk
InitRead ==
    \/ Init /\ \A p \in DOMAIN disk : disk[p] \notin {OkFile(<<>>), BadFile("open")}
    \/ InitUnit

NextRead == Next \/ ReadFile

SpecRead == InitRead /\ [][NextRead]_vars

(***************************************************************************)
(* Properties of the batch loop.                                           *)
(***************************************************************************)
\* a batch run in progress or finished that no interrupt has touched
BatchRun == mode \in {"2", "3"} /\ interrupts = <<>> /\ pc \in {"loop", "report", "done"}

\* the records of results about a path
RecordsOf(path) == {j \in 1..Len(results) : InfoGet(results[j], "file_path") = path}

\* the record bears an error marker
HasErrorMarker(r) == InfoHas(r, "error")

\* C1: in a batch run that no interrupt has touched, results holds one record
\* per path attempted so far, the record of an unreadable path bearing an
\* error marker; a list of three paths with one unreadable one ends with
\* three records, exactly one of them marked
C1_RecordPerPath ==
    BatchRun =>
        /\ Len(results) = idx
        /\ \A i \in 1..idx :
              /\ RecordsOf(pek_files[i]) # {}
              /\ \A j \in RecordsOf(pek_files[i]) :
                    HasErrorMarker(results[j]) <=> FileAt(pek_files[i]).status # "ok"

(***************************************************************************)
(* Properties of the methods of one analyzer.                              *)
(***************************************************************************)
\* read_pek_file has just returned on a readable file
ReadOk == mode = "unit" /\ pc = "read" /\ disk[UnitPath].status = "ok"

\* get_audio_info has returned a dict
Described == mode = "unit" /\ pc = "done" /\ info # Unset

\* the bytes of the file under analysis
Data == disk[UnitPath].data

\* C2: after the peak pass the selected sequence is the int16 one when it is
\* strictly longer than the float one and the float one otherwise (also on a
\* tie); the buffer 00 00 80 3F 00 00 00 00 selects the int16 sequence and
\* reports peak_samples = 4
C2_Selector ==
    /\ (Described /\ locals # None /\ Data = Example8) =>
          InfoGet(info, "peak_samples") = Whole(4)
    /\ ReadOk =>
        /\ analyzer.peaks = IF Len(locals.short_values) > Len(locals.float_values)
                            THEN locals.short_values
                            ELSE locals.float_values
        /\ Data = Example8 =>
              /\ analyzer.peaks = locals.short_values
              /\ analyzer.metadata["peak_count"] = Whole(4)

\* the example buffer has been read and described
C2_Witness ==
    /\ Described
    /\ locals # None
    /\ Data = Example8
    /\ analyzer.peaks = locals.short_values
    /\ Len(locals.short_values) = 4
    /\ Len(locals.float_values) = 2
    /\ InfoGet(info, "peak_samples") = Whole(4)

\* the float value of the j-th aligned 4-byte window of the data
FloatWindow(j) == unpack_f(SubSeq(Data, 4 * j - 3, 4 * j)).v

\* the aligned windows whose value lies in [-1.0, 1.0]
FloatKept ==
    {j \in 1..(Len(Data) \div 4) :
        LessEq(MinusOne, FloatWindow(j)) /\ LessEq(FloatWindow(j), One)}

\* C3: the float hypothesis yields, in their order, the values of exactly those
\* aligned 4-byte windows inside the buffer that lie in [-1.0, 1.0]: at most
\* floor(L / 4) values, each in [-1.0, 1.0]
C3_FloatDecoder ==
    ReadOk =>
        /\ Len(locals.float_values) <= Len(Data) \div 4
        /\ Len(locals.float_values) = Cardinality(FloatKept)
        /\ \A i \in 1..Len(locals.float_values) :
              /\ LessEq(MinusOne, locals.float_values[i])
              /\ LessEq(locals.float_values[i], One)
              /\ \E j \in FloatKept :
                    /\ Cardinality({h \in FloatKept : h <= j}) = i
                    /\ locals.float_values[i] = FloatWindow(j)

\* a buffer with trailing bytes whose windows are partly kept, partly dropped
C3_Witness ==
    /\ ReadOk
    /\ Len(Data) % 4 # 0
    /\ Len(locals.float_values) >= 1
    /\ Len(locals.float_values) < Len(Data) \div 4
    /\ \E j \in 1..(Len(Data) \div 4) :
          j \notin FloatKept /\ \E h \in FloatKept : h > j

\* the signed value of the j-th aligned 2-byte window of the data
ShortWindow(j) ==
    LET u == Data[2 * j - 1] + 256 * Data[2 * j]
    IN  IF u >= 32768 THEN u - 65536 ELSE u

\* C4: the int16 hypothesis yields exactly floor(L / 2) values, the j-th one
\* being v / 32768 for the signed value v of the j-th aligned 2-byte window,
\* hence within [-1.0, 1.0]
C4_ShortDecoder ==
    ReadOk =>
        /\ Len(locals.short_values) = Len(Data) \div 2
        /\ \A j \in 1..Len(locals.short_values) :
              /\ locals.short_values[j] =
                    Num(ShortWindow(j) < 0,
                        IF ShortWindow(j) < 0 THEN -ShortWindow(j) ELSE ShortWindow(j), -15)
              /\ LessEq(MinusOne, locals.short_values[j])
              /\ LessEq(locals.short_values[j], One)

\* an odd-length buffer holding a negative, a positive and the least value
C4_Witness ==
    /\ ReadOk
    /\ Len(Data) % 2 = 1
    /\ \E j \in 1..Len(locals.short_values) : ShortWindow(j) = -32768
    /\ \E j \in 1..Len(locals.short_values) : ShortWindow(j) > 0
    /\ \E j \in 1..Len(locals.short_values) : locals.short_values[j] = MinusOne

\* the unsigned value of the 4-byte window at offset off, -1 when it exceeds
\* 24 bits (every rate is below 2^24)
RateWindow(off) ==
    IF Data[off + 4] # 0 THEN -1
    ELSE Data[off + 1] + 256 * Data[off + 2] + 65536 * Data[off + 3]

\* the offsets 0 .. L - 4 whose window holds one of the five rates
RateOffsets ==
    {off \in 0..(Len(Data) - 4) :
        RateWindow(off) \in {44100, 48000, 96000, 88200, 192000}}

\* C5: the rate recorded is the value of the window at the smallest offset in
\* 0 .. L - 4 (aligned or not) that holds one of the five rates, and no rate
\* is recorded when there is no such offset, as when L < 4
C5_FirstRateWins ==
    ReadOk =>
        IF RateOffsets = {}
        THEN ~Has(analyzer.metadata, "possible_sample_rate")
        ELSE /\ Has(analyzer.metadata, "possible_sample_rate")
             /\ \E off \in RateOffsets :
                   /\ \A o \in RateOffsets : off <= o
                   /\ analyzer.metadata["possible_sample_rate"] = RateWindow(off)

\* two different rates in the buffer, the first at an unaligned offset
C5_Witness ==
    /\ ReadOk
    /\ \E off \in RateOffsets :
          /\ off % 4 # 0
          /\ \A o \in RateOffsets : off <= o
          /\ \E o \in RateOffsets : RateWindow(o) # RateWindow(off)
          /\ analyzer.metadata["possible_sample_rate"] = RateWindow(off)

\* the number of selected samples and the stride max(1, N div W) of a call
\* with target width W
SampleCount == Len(analyzer.peaks)

StrideFor(W) == IF SampleCount \div W >= 1 THEN SampleCount \div W ELSE 1

\* ceil(N / stride) capped at W
PointsFor(W) ==
    IF (SampleCount + StrideFor(W) - 1) \div StrideFor(W) <= W
    THEN (SampleCount + StrideFor(W) - 1) \div StrideFor(W)
    ELSE W

\* C6: with N >= 1 selected samples, a renderer called with target width W
\* puts out ceil(N / stride) points capped at W, stride = max(1, N div W): the
\* CSV holds that many data lines, the i-th for the sample of index
\* (i - 1) * stride, and every row of the ASCII grid that many columns
C6_Downsampling ==
    (mode = "unit" /\ pc = "done" /\ args # None /\ SampleCount >= 1) =>
        IF csv # Unset
        THEN /\ Len(csv) = 6 + PointsFor(args.width)
             /\ \A i \in 1..(Len(csv) - 6) :
                   csv[6 + i] =
                       ToString((i - 1) * StrideFor(args.width)) \o ","
                       \o FormatValue(analyzer.peaks[(i - 1) * StrideFor(args.width) + 1], 6)
        ELSE \A r \in 1..Len(ascii) : Len(ascii[r]) = PointsFor(args.width)

\* the analyzer after read_pek_file failed on the file
ReadFailed == mode = "unit" /\ pc = "read" /\ disk[UnitPath].status # "ok"

\* the step of the batch loop over an unreadable path, no interrupt landing
UnreadableStep ==
    /\ mode \in {"2", "3"}
    /\ pc = "loop"
    /\ idx < Len(pek_files)
    /\ FileAt(pek_files[idx + 1]).status # "ok"
    /\ interrupts' = interrupts

\* C7: when opening, sizing or reading the file fails, read_pek_file returns
\* False with the message under metadata['error'], peaks empty and no peak
\* statistics in metadata; and the batch loop, nothing raised to it, goes on
\* to the next path of the list (or to the report after the last one)
C7_Unreadable ==
    /\ [](ReadFailed =>
            /\ ret = "False"
            /\ Has(analyzer.metadata, "error")
            /\ analyzer.peaks = <<>>
            /\ DOMAIN analyzer.metadata
                 \cap {"peak_count", "max_peak", "min_peak", "avg_peak"} = {})
    /\ [][UnreadableStep =>
            /\ idx' = idx + 1
            /\ results' = results
            /\ pc' = IF idx' < Len(pek_files) THEN "loop" ELSE "report"]_vars

\* a batch went over a first path whose full read fails and analysed the
\* second one
C7_Witness ==
    /\ mode \in {"2", "3"}
    /\ interrupts = <<>>
    /\ idx = 2
    /\ FileAt(pek_files[1]).status = "read_all"
    /\ FileAt(pek_files[2]).status = "ok"
    /\ Len(results) = 1

\* an interrupt lands inside read_pek_file in this step of the batch loop
InterruptedRead ==
    /\ mode \in {"2", "3"}
    /\ pc = "loop"
    /\ interrupts = <<>>
    /\ interrupts' # <<>>
    /\ interrupts'[1].at \notin {"info", "stat", "main"}

\* C8: the step of the batch loop in which an interrupt arrives inside
\* read_pek_file abandons the file: it appends no record to the batch results
C8_Cancellation == [][InterruptedRead => results' = results]_vars

\* the paths of the records are, in their order, paths of the list met in
\* that order: record j comes from position f[j], f increasing
InListOrder(records, paths) ==
    \E f \in [1..Len(records) -> 1..Len(paths)] :
        /\ \A j \in 1..Len(records) : InfoGet(records[j], "file_path") = paths[f[j]]
        /\ \A i, j \in 1..Len(records) : i < j => f[i] < f[j]

\* C9: no report write happens while the batch loop runs, and a batch run
\* that went through all the paths of a non-empty list without interrupt has
\* written the report exactly once, after the last path, its blocks those of
\* the records in the order of the input list
C9_ReportOnce ==
    /\ (mode \in {"2", "3"} /\ pc \in {"loop", "report"}) =>
          (report_writes = 0 /\ report = Unset)
    /\ (mode \in {"2", "3"} /\ pc = "done" /\ pek_files # <<>> /\ interrupts = <<>>
        /\ idx = Len(pek_files)) =>
          /\ report_writes = 1
          /\ report = ReportHeader \o ReportBlocks(results)
          /\ InListOrder(results, pek_files)

\* a rate matches somewhere in the file and samples were decoded
RateMatched ==
    /\ disk[UnitPath].status = "ok"
    /\ RateOffsets # {}
    /\ Has(analyzer.metadata, "peak_count")

\* the rate at the first matching offset
MatchedRate == RateWindow(CHOOSE off \in RateOffsets : \A o \in RateOffsets : off <= o)

\* the rate as odd * 2^TwoPart
TwoPart(rate) == CHOOSE t \in 0..17 : rate % Pow2(t) = 0 /\ (rate \div Pow2(t)) % 2 = 1

\* d = floor(count / rate), count a sample count
IsFloorOf(d, count, rate) ==
    /\ LessEq(Num(FALSE, d * (rate \div Pow2(TwoPart(rate))), TwoPart(rate)), count)
    /\ Less(count, Num(FALSE, (d + 1) * (rate \div Pow2(TwoPart(rate))), TwoPart(rate)))

\* two decimal digits
TwoDigits(n) == ToString(n \div 10) \o ToString(n % 10)

\* C10: the dict holds sample_rate and estimated_duration exactly when a rate
\* matched (and samples were decoded), both or neither; sample_rate is then
\* the matched rate followed by " Hz" and estimated_duration is H:MM:SS for
\* floor(peak_samples / rate) seconds
C10_RateAndDuration ==
    Described =>
        /\ InfoHas(info, "sample_rate") <=> RateMatched
        /\ InfoHas(info, "estimated_duration") <=> RateMatched
        /\ RateMatched =>
              /\ InfoGet(info, "sample_rate") = ToString(MatchedRate) \o " Hz"
              /\ \E h \in 0..99, m \in 0..59, sec \in 0..59 :
                    /\ InfoGet(info, "estimated_duration")
                         = ToString(h) \o ":" \o TwoDigits(m) \o ":" \o TwoDigits(sec)
                    /\ IsFloorOf(3600 * h + 60 * m + sec,
                                 InfoGet(info, "peak_samples"), MatchedRate)

(***************************************************************************)
(* Files without samples.                                                  *)
(***************************************************************************)
\* a readable file went through read_pek_file and both hypotheses of the
\* peak pass came out empty
NoSamples ==
    /\ mode = "unit"
    /\ disk[UnitPath].status = "ok"
    /\ locals # None
    /\ locals.float_values = <<>>
    /\ locals.short_values = <<>>

\* the keys of a dict
KeysOf(d) == {d[j][1] : j \in 1..Len(d)}

IdentityKeys ==
    {"file_name", "file_path", "file_size", "file_size_formatted", "created", "modified"}

\* the renderer that was called, from the arguments kept of the call
ExportCalled == pc = "done" /\ args # None /\ args.height = 0
AsciiCalled == pc = "done" /\ args # None /\ args.height > 0

\* C11: when both decoders give an empty sequence, the dict of get_audio_info
\* holds only the file-identity fields (no peak_samples, amplitudes,
\* estimated_duration or sample_rate), no sample rate is recorded,
\* create_ascii_waveform returns the no-data placeholder and
\* export_waveform_data returns False without writing a file
C11_NoViableSamples ==
    NoSamples =>
        /\ analyzer.peaks = <<>>
        /\ ~Has(analyzer.metadata, "possible_sample_rate")
        /\ ~Has(analyzer.metadata, "peak_count")
        /\ info # Unset =>
              /\ KeysOf(info) \subseteq IdentityKeys
              /\ {"file_name", "file_path", "file_size", "file_size_formatted"}
                    \subseteq KeysOf(info)
              /\ InfoGet(info, "file_size") = Whole(Len(Data))
        /\ ExportCalled => ret = "False" /\ csv = Unset
        /\ AsciiCalled => ascii = << <<NoWaveform>> >>

\* a one-byte file was read and create_ascii_waveform called on it
C11_Witness ==
    /\ NoSamples
    /\ Len(Data) = 1
    /\ AsciiCalled
    /\ ascii = << <<NoWaveform>> >>
    /\ analyzer.peaks = <<>>

(***************************************************************************)
(* The tabular export read back.  A reader of the file skips the comment   *)
(* lines and the blank line and splits every other line at its comma.      *)
(***************************************************************************)
IsDataLine(line) == line # "" /\ SubSeq(line, 1, 1) # "#"

\* the position of the first comma of a line, 0 when it has none
CommaAt(line) ==
    IF \A i \in 1..Len(line) : SubSeq(line, i, i) # "," THEN 0
    ELSE CHOOSE i \in 1..Len(line) :
            /\ SubSeq(line, i, i) = ","
            /\ \A j \in 1..(i - 1) : SubSeq(line, j, j) # ","

\* the (index, amplitude) pair of a data line, as the two texts
PairOf(line) ==
    <<SubSeq(line, 1, CommaAt(line) - 1), SubSeq(line, CommaAt(line) + 1, Len(line))>>

\* the pairs a reader gets from the lines of the file
ReadBack(lines) ==
    [k \in 1..Len(SelectSeq(lines, IsDataLine)) |-> PairOf(SelectSeq(lines, IsDataLine)[k])]

\* C12: for a non-empty selected sequence and max_points >= 1 the export
\* writes one index,amplitude line per downsampled point, as many as the
\* "# Displayed samples" header says; the k-th line (from 0) carries the
\* index k * stride, a position of the full sequence, and the sample at that
\* position to 6 decimals; reading the lines back gives that many pairs
C12_ExportRoundTrip ==
    (mode = "unit" /\ ExportCalled /\ SampleCount >= 1) =>
        /\ ret = "True"
        /\ Len(csv) > 6
        /\ csv[2] = "# Source: " \o UnitPath
        /\ csv[3] = "# Total samples: " \o ToString(SampleCount)
        /\ csv[4] = "# Displayed samples: " \o ToString(Len(csv) - 6)
        /\ \A k \in 1..6 : ~IsDataLine(csv[k])
        /\ Len(ReadBack(csv)) = Len(csv) - 6
        /\ \A k \in 0..(Len(csv) - 7) :
              /\ k * StrideFor(args.width) < SampleCount
              /\ CommaAt(csv[7 + k]) > 0
              /\ ReadBack(csv)[k + 1] =
                    << ToString(k * StrideFor(args.width)),
                       FormatValue(analyzer.peaks[k * StrideFor(args.width) + 1], 6) >>

\* four samples exported at max_points = 2: stride 2, the lines of the
\* samples 0 and 2
C12_Witness ==
    /\ mode = "unit"
    /\ ExportCalled
    /\ SampleCount = 4
    /\ args.width = 2
    /\ Len(csv) = 8
    /\ ReadBack(csv)[2][1] = "2"
    /\ ReadBack(csv)[2][2] # ReadBack(csv)[1][2]

(***************************************************************************)
(* The pipeline run twice.                                                 *)
(***************************************************************************)
\* read_pek_file and get_audio_info have both run a second time
RanTwice == mode = "unit" /\ pc = "done2"

\* C13: read_pek_file followed by get_audio_info, run twice on an unmodified
\* file, on the same PEKAnalyzer or on a fresh one, gives the same dict both
\* times; what the first run left in peaks and metadata changes nothing
C13_Idempotent ==
    RanTwice =>
        /\ Len(results) = 2
        /\ results[2] = results[1]
        /\ info = results[1]

\* the second run was made on the same analyzer, on a file with samples and
\* a sample rate
C13_Witness ==
    /\ RanTwice
    /\ ~args.fresh
    /\ Len(results) = 2
    /\ results[2] = results[1]
    /\ InfoHas(results[2], "peak_samples")
    /\ InfoHas(results[2], "sample_rate")
    /\ Len(analyzer.peaks) >= 4

(***************************************************************************)
(* The ASCII grid.                                                         *)
(***************************************************************************)
\* create_ascii_waveform was called with an even height on an analyzer that
\* holds samples
GridDrawn ==
    /\ mode = "unit"
    /\ AsciiCalled
    /\ SampleCount >= 1
    /\ args.height % 2 = 0

\* C14: for a non-empty selected sequence, a width W >= 1 and an even height
\* H >= 2 the text of create_ascii_waveform is a W x H grid: H rows of W
\* characters each, every one the filled block, the baseline dash or a space
C14_GridShape ==
    GridDrawn =>
        /\ Len(ascii) = args.height
        /\ \A r \in 1..Len(ascii) :
              /\ Len(ascii[r]) = args.width
              /\ \A j \in 1..Len(ascii[r]) : ascii[r][j] \in {"#", "-", " "}

\* the scaled value of column j of the grid drawn
ColumnValue(j) == Normalized(analyzer.peaks, args.width, args.height)[j]

\* the glyph of column j on the row numbered row (rows run from H/2 at the
\* top down), "absent" when the text has no line for that row
CellAt(row, j) ==
    IF args.height \div 2 - row + 1 \in 1..Len(ascii)
    THEN ascii[args.height \div 2 - row + 1][j]
    ELSE "absent"

\* the rows a column of scaled value v is to fill: 1..v or v..-1
BarRows(v) == IF v > 0 THEN 1..v ELSE IF v < 0 THEN v..(-1) ELSE {}

\* C15: with an even height H every column's scaled value v lies in
\* [-H/2, H/2]; the column fills exactly the rows 1..v when v > 0 and exactly
\* the rows v..-1 when v < 0, and shows the baseline dash on row 0, so that
\* the columns of v and -v mirror each other about row 0
C15_MirroredBars ==
    GridDrawn =>
        \A j \in 1..Len(Normalized(analyzer.peaks, args.width, args.height)) :
            /\ ColumnValue(j) \in (-(args.height \div 2))..(args.height \div 2)
            /\ CellAt(0, j) = "-"
            /\ \A row \in (-(args.height \div 2))..(args.height \div 2) :
                  CellAt(row, j) = "#" <=> row \in BarRows(ColumnValue(j))

(***************************************************************************)
(* The statistics of the selected sequence.                                *)
(***************************************************************************)
\* an analyzer whose file is held in full (peaks lists every sample)
Materialised ==
    /\ analyzer # None
    /\ FileAt(analyzer.file_path).size = Whole(Len(FileAt(analyzer.file_path).data))

\* metadata describes peaks
StatsDescribe(metadata, peaks) ==
    /\ Has(metadata, "peak_count") <=> peaks # <<>>
    /\ peaks # <<>> =>
          /\ {"peak_count", "max_peak", "min_peak", "avg_peak"} \subseteq DOMAIN metadata
          /\ metadata["peak_count"] = Whole(Len(peaks))
          /\ metadata["max_peak"] = PyMax(peaks)
          /\ metadata["min_peak"] = PyMin(peaks)
          /\ LessEq(metadata["min_peak"], metadata["max_peak"])
          /\ metadata["avg_peak"] = MeanAbs(peaks)

\* C16: after any calls of read_pek_file on an analyzer, metadata holds
\* peak_count exactly when peaks is non-empty, and then peak_count is
\* len(peaks), max_peak and min_peak are the greatest and the smallest
\* element of peaks and avg_peak is the mean of their magnitudes
C16_StatsConsistent ==
    Materialised => StatsDescribe(analyzer.metadata, analyzer.peaks)

(***************************************************************************)
(* The lengths of the two hypotheses.                                      *)
(***************************************************************************)
\* C17: on a buffer of L bytes the int16 hypothesis yields L div 2 values
\* and the float32 one at most L div 4; for L >= 2 the selected sequence is
\* the int16 one and peak_count is L div 2; the two lengths are equal only
\* when both are 0 (L < 2), so a tie never selects a non-empty sequence
C17_ShortAlwaysWins ==
    ReadOk =>
        /\ Len(locals.short_values) = Len(Data) \div 2
        /\ Len(locals.float_values) <= Len(Data) \div 4
        /\ Len(Data) >= 2 =>
              /\ Len(locals.short_values) > Len(locals.float_values)
              /\ analyzer.peaks = locals.short_values
              /\ analyzer.peaks # locals.float_values
              /\ analyzer.metadata["peak_count"] = Whole(Len(Data) \div 2)
        /\ Len(locals.short_values) = Len(locals.float_values) =>
              /\ Len(Data) < 2
              /\ locals.short_values = <<>>
              /\ analyzer.peaks = <<>>

\* a buffer whose float32 windows are all kept, and yet the int16 sequence
\* is selected
C17_Witness ==
    /\ ReadOk
    /\ Len(Data) >= 8
    /\ Len(locals.float_values) = Len(Data) \div 4
    /\ analyzer.peaks = locals.short_values
    /\ analyzer.metadata["peak_count"] = Whole(Len(Data) \div 2)
    /\ \E j \in 1..Len(locals.short_values) : locals.short_values[j].neg

====
